---- MODULE Spec2Model ----
(***************************************************************************)
(* Model of the CloudWatch metrics aggregator (src/index.ts):              *)
(* AggregatedMetric, AggregateMetricQueue and AggregateMetricTimedHandler. *)
(*                                                                         *)
(* Metric objects are records.  An optional field (Dimensions?) is a       *)
(* record  [defined, items] : defined = FALSE is JavaScript's undefined.   *)
(* The field  id  of a metric and the field  src  of an aggregate are      *)
(* history fields: id numbers the Metric objects in the order in which     *)
(* they were handed to addMetrics, src lists the ids of the metrics whose  *)
(* Value was pushed on Values.                                             *)
(***************************************************************************)
EXTENDS Integers, Sequences, FiniteSets, TLC

\* ------------------------------------------------------------------ bounds
MaxAdds == 3
MaxLimit == 3
MaxQueue == 3
MaxAggs == 3

\* ------------------------------------------------------------------ inputs
MetricValues == {1, 2}

\* a.Name > b.Name compares strings; Rank gives the order of the names used.
Rank(name) == IF name = "abc" THEN 1 ELSE 2

\* A Dimension object.  keys is the order in which the object lists its
\* properties (Object.keys), which JSON.stringify follows.
Dim(n, v) == [Name |-> n, Value |-> v, keys |-> << "Name", "Value" >>]
DimValueFirst(n, v) == [Name |-> n, Value |-> v, keys |-> << "Value", "Name" >>]

Undefined == [defined |-> FALSE, items |-> << >>]
Some(list) == [defined |-> TRUE, items |-> list]

\* type Metric, without its id: the metrics the reduce and coalesce
\* specifications draw their queues from.  Dimensions absent, empty, one
\* dimension, the two orders of a two-dimension set, a dimension written
\* { Value, Name }, and the two orders of a list that repeats a name.
MetricInputs ==
    [MetricName : {"m1"}, Value : MetricValues,
     Dimensions : { Undefined,
                    Some(<< Dim("abc", "p"), Dim("xyz", "q") >>),
                    Some(<< Dim("xyz", "q"), Dim("abc", "p") >>) }]
    \cup [MetricName : {"m1"}, Value : {1},
          Dimensions : { Some(<< >>),
                         Some(<< Dim("abc", "p") >>),
                         Some(<< DimValueFirst("abc", "p") >>),
                         Some(<< Dim("abc", "p"), Dim("abc", "q") >>),
                         Some(<< Dim("abc", "q"), Dim("abc", "p") >>) }]
    \cup [MetricName : {"m2"}, Value : {1},
          Dimensions : { Undefined, Some(<< Dim("abc", "p") >>) }]

\* The metrics the producers of the queue/handler specification add.
ProducerInputs ==
    { [MetricName |-> "m1", Value |-> 1, Dimensions |-> Undefined],
      [MetricName |-> "m1", Value |-> 2,
       Dimensions |-> Some(<< Dim("xyz", "q"), Dim("abc", "p") >>)],
      [MetricName |-> "m2", Value |-> 2, Dimensions |-> Some(<< >>)] }

\* Reading a property: undef when the object does not have it.
Get(obj, f, undef) == IF f \in DOMAIN obj THEN obj[f] ELSE undef

\* undefined, where a string (MetricName, Unit?: string) is read, and where
\* a date (Timestamp?: Date, a time in ms) is read.
NoString == "undefined"
NoDate == 0

\* The Metric object m, numbered i.  The input sets leave out the optional
\* properties a metric does not have.
WithId(m, i) ==
    [id |-> i, MetricName |-> Get(m, "MetricName", NoString), Value |-> m.Value,
     Dimensions |-> m.Dimensions,
     Unit |-> Get(m, "Unit", NoString),
     Timestamp |-> Get(m, "Timestamp", NoDate)]

\* The metrics of one addMetrics(...metrics) call: none, one or two.
Batches ==
    {<< >>} \cup {<< m >> : m \in ProducerInputs}
            \cup {<< [MetricName |-> "m1", Value |-> 1, Dimensions |-> Undefined],
                      [MetricName |-> "m1", Value |-> 2, Dimensions |-> Undefined] >>}

\* The metrics the handler's callback adds while it runs.
CallbackBatches ==
    {<< >>, << [MetricName |-> "m1", Value |-> 2, Dimensions |-> Undefined] >>}

\* limit?: number
Omitted == [given |-> FALSE, n |-> 0]
Lim(n) == [given |-> TRUE, n |-> n]
Limits == {Omitted} \cup {Lim(n) : n \in 0..MaxLimit}

\* A loop condition that lacks the !limit clause.
FalsyNever(limit) == FALSE

\* !limit
Falsy(limit) == ~limit.given \/ limit.n = 0

\* ------------------------------------------------------------- Array.sort
\* metric.Dimensions.sort((a, b) => ...) : a stable sort by Name.
RECURSIVE InsertByName(_, _)
InsertByName(d, sorted) ==
    IF sorted = << >> THEN << d >>
    ELSE IF Rank(d.Name) < Rank(Head(sorted).Name)
         THEN << d >> \o sorted
         ELSE << Head(sorted) >> \o InsertByName(d, Tail(sorted))

\* No sort at all: the dimensions stay as the producer listed them.
SortByNameNot(dims) == dims

RECURSIVE SortByName(_)
SortByName(dims) ==
    IF dims = << >> THEN << >>
    ELSE InsertByName(dims[Len(dims)], SortByName(SubSeq(dims, 1, Len(dims) - 1)))

\* -------------------------------------------------------- AggregatedMetric
\* this.Values.reduce((pv, cv) => pv + cv)
RECURSIVE SumReduce(_)
SumReduce(values) ==
    IF Len(values) = 1 THEN values[1]
    ELSE SumReduce(SubSeq(values, 1, Len(values) - 1)) + values[Len(values)]

\* new AggregatedMetric(metric)
NewAggregatedMetric(metric) ==
    [MetricName |-> metric.MetricName,
     Value |-> metric.Value,
     Values |-> << metric.Value >>,
     Dimensions |-> metric.Dimensions,
     Unit |-> NoString,
     Timestamp |-> NoDate,
     _metrics |-> << >>,
     src |-> << metric.id >>]

\* A push that leaves the sum at its old value.
pushKeepsValue(agg, metric) ==
    [agg EXCEPT !._metrics = Append(@, metric.id),
                !.Values = Append(@, metric.Value),
                !.src = Append(@, metric.id)]

\* AggregatedMetric.push
push(agg, metric) ==
    [agg EXCEPT !._metrics = Append(@, metric.id),
                !.Values = Append(@, metric.Value),
                !.Value = SumReduce(Append(agg.Values, metric.Value)),
                !.src = Append(@, metric.id)]

\* AggregatedMetric.count
aggCount(agg) == Len(agg._metrics)

\* AggregatedMetric.getMetric
getMetric(agg) ==
    [MetricName |-> agg.MetricName,
     Dimensions |-> agg.Dimensions,
     Timestamp |-> agg.Timestamp,
     Unit |-> agg.Unit,
     Value |-> agg.Value]

\* AggregatedMetric.getMetricSet
getMetricSet(agg) ==
    [MetricName |-> agg.MetricName,
     Dimensions |-> agg.Dimensions,
     Timestamp |-> agg.Timestamp,
     Unit |-> agg.Unit,
     Values |-> agg.Values]

\* ---------------------------------------------------- AggregateMetricQueue
\* The metric as mapMetricToAggregator leaves it: Dimensions sorted in place.
SortedInPlace(metric) ==
    IF metric.Dimensions.defined /\ Len(metric.Dimensions.items) > 0
    THEN [metric EXCEPT !.Dimensions = Some(SortByName(metric.Dimensions.items))]
    ELSE metric

\* A key made of the metric name alone.
keyStrNameOnly(metric) ==
    [MetricName |-> metric.MetricName, Dimensions |-> << >>]

\* JSON.stringify of a Dimension list: per object its properties, name and
\* value, in the order the object lists them.
stringify(dims) ==
    [i \in 1..Len(dims) |->
        [j \in 1..2 |-> << dims[i].keys[j], dims[i][dims[i].keys[j]] >>]]

\* JSON.stringify(keyMap): keyMap has MetricName, and Dimensions (the sorted
\* list) only when the metric has at least one dimension.  The text is
\* modelled by the name and the text of the list; a missing Dimensions
\* property is the empty text, which a list of at least one dimension
\* never yields.
keyStr(metric) ==
    [MetricName |-> metric.MetricName,
     Dimensions |-> IF metric.Dimensions.defined /\ Len(metric.Dimensions.items) > 0
                    THEN stringify(SortByName(metric.Dimensions.items))
                    ELSE << >>]

\* Index of key k in an insertion-ordered object, 0 when absent.
IndexOf(map, k) ==
    IF \E i \in 1..Len(map) : map[i].key = k
    THEN CHOOSE i \in 1..Len(map) : map[i].key = k
    ELSE 0

mapMetricToAggregator(metric, map) ==
    LET k == keyStr(metric)
        m == SortedInPlace(metric)
        i == IndexOf(map, k)
    IN  IF i = 0
        THEN Append(map, [key |-> k, val |-> NewAggregatedMetric(m)])
        ELSE [map EXCEPT ![i].val = push(@, m)]

\* Array.shift on the queue: the element removed (as a one-element sequence,
\* empty for undefined) and the queue left.
ShiftHead(q) == IF q = << >> THEN << >> ELSE << Head(q) >>
ShiftRest(q) == IF q = << >> THEN << >> ELSE Tail(q)

\* The while loop of reduceAndClear.  metric is the value of the local
\* variable (a sequence of length at most one), q the queue after the shifts.
RECURSIVE ReduceLoop(_, _, _, _, _)
ReduceLoop(metric, q, counter, limit, map) ==
    IF metric # << >> /\ (Falsy(limit) \/ counter < limit.n)
    THEN ReduceLoop(ShiftHead(q), ShiftRest(q), counter + 1, limit,
                    mapMetricToAggregator(metric[1], map))
    ELSE [map |-> map, queue |-> q, counter |-> counter]

\* for (let k in map) arr.push(map[k])
ValuesOf(map) == [i \in 1..Len(map) |-> map[i].val]

\* reduceAndClear(limit): the list returned, the queue it leaves, and the
\* Metric objects it grouped as the sort in mapMetricToAggregator left them.
reduceAndClear(q, limit) ==
    LET r == ReduceLoop(ShiftHead(q), ShiftRest(q), 0, limit, << >>)
    IN  [arr |-> ValuesOf(r.map), queue |-> r.queue, counter |-> r.counter,
         objects |-> [i \in 1..r.counter |-> SortedInPlace(q[i])]]

\* A map that outlives the call: the aggregates of the list returned before
\* are its first entries.
drainAfterKeepsMap(prev, q, limit) ==
    LET kept == [k \in 1..Len(prev) |-> [key |-> keyStr(prev[k]), val |-> prev[k]]]
        r == ReduceLoop(ShiftHead(q), ShiftRest(q), 0, limit, kept)
    IN  [old |-> SubSeq(ValuesOf(r.map), 1, Len(prev)),
         new |-> [arr |-> ValuesOf(r.map), queue |-> r.queue, counter |-> r.counter,
                  objects |-> [i \in 1..r.counter |-> SortedInPlace(q[i])]]]

\* reduceAndClear(limit) called while the caller still holds prev, the list
\* an earlier call returned: const map = {} is a new object, so the call
\* reaches none of prev's aggregates.
drainAfter(prev, q, limit) ==
    [old |-> prev, new |-> reduceAndClear(q, limit)]

\* AggregateMetricQueue.coalesce.  Both keys are the name followed by the
\* JSON text of a list (the text of a list starts at the only unescaped
\* [{" or [] of the key), modelled by the pair.
\* metric.MetricName + "[]"
keyCoalesce(metric) == [MetricName |-> metric.MetricName, Dimensions |-> << >>]

\* A unique key that leaves the dimensions out.
keyUniqueNameOnly(metric) ==
    [MetricName |-> metric.MetricName, Dimensions |-> << >>]

\* A unique key without the ?? []: undefined is concatenated as it is.
keyUniqueNoDefault(metric) ==
    [MetricName |-> metric.MetricName,
     Dimensions |-> IF metric.Dimensions.defined
                    THEN stringify(metric.Dimensions.items)
                    ELSE << "undefined" >>]

\* metric.MetricName + JSON.stringify(metric.Dimensions ?? [])
keyUnique(metric) ==
    [MetricName |-> metric.MetricName,
     Dimensions |-> stringify(IF metric.Dimensions.defined
                              THEN metric.Dimensions.items ELSE << >>)]

\* A scan that stores the entry under the unique key before the rollup.
coalesceStepUniqueFirst(cmap, metric) ==
    LET kc == keyCoalesce(metric)
        ku == keyUnique(metric)
        j == IndexOf(cmap, ku)
        c1 == IF kc # ku
              THEN IF j = 0
                   THEN Append(cmap, [key |-> ku, val |-> metric])
                   ELSE [cmap EXCEPT ![j].val = metric]
              ELSE cmap
        i == IndexOf(c1, kc)
    IN  IF i = 0
        THEN Append(c1, [key |-> kc, val |-> getMetricSet(metric)])
        ELSE [c1 EXCEPT ![i].val.Values = @ \o getMetricSet(metric).Values]

\* One round of the for loop of coalesce.
coalesceStep(cmap, metric) ==
    LET kc == keyCoalesce(metric)
        ku == keyUnique(metric)
        i == IndexOf(cmap, kc)
        c1 == IF i = 0
              THEN Append(cmap, [key |-> kc, val |-> getMetricSet(metric)])
              ELSE [cmap EXCEPT ![i].val.Values = @ \o getMetricSet(metric).Values]
        j == IndexOf(c1, ku)
    IN  IF kc # ku
        THEN IF j = 0
             THEN Append(c1, [key |-> ku, val |-> metric])
             ELSE [c1 EXCEPT ![j].val = metric]
        ELSE c1

RECURSIVE coalesceLoop(_, _)
coalesceLoop(cmap, list) ==
    IF list = << >> THEN cmap
    ELSE coalesceLoop(coalesceStep(cmap, Head(list)), Tail(list))

\* coalesce(metrics): for (let k in cmap) arr.push(cmap[k])
coalesce(list) == ValuesOf(coalesceLoop(<< >>, list))

\* What the entries of cmap are made of, for the k-th aggregate of the list
\* and on: obj is the place in the list of the aggregate the entry is (0: an
\* object getMetricSet created), values the place of the aggregate whose
\* Values array the entry's Values is (0: an array concat created).
RECURSIVE aliasLoop(_, _, _, _)
aliasLoop(cmap, refs, list, k) ==
    IF list = << >> THEN refs
    ELSE LET metric == Head(list)
             kc == keyCoalesce(metric)
             ku == keyUnique(metric)
             i == IndexOf(cmap, kc)
             r1 == IF i = 0
                   THEN Append(refs, [obj |-> 0, values |-> k])
                   ELSE [refs EXCEPT ![i].values = 0]
             after == coalesceStep(cmap, metric)
             j == IndexOf(after, ku)
             r2 == IF kc # ku
                   THEN IF j > Len(r1)
                        THEN Append(r1, [obj |-> k, values |-> k])
                        ELSE [r1 EXCEPT ![j] = [obj |-> k, values |-> k]]
                   ELSE r1
         IN  aliasLoop(after, r2, Tail(list), k + 1)

\* The objects and arrays the list coalesce returns shares with its input.
alias(list) == aliasLoop(<< >>, << >>, list, 1)

\* The keys of an insertion-ordered object, in order.
KeysOf(map) == [i \in 1..Len(map) |-> map[i].key]

\* ---------------------------------------------- AggregateMetricTimedHandler
\* A process() that drains one metric per tick.
processOneMetric(q) ==
    LET r == reduceAndClear(q, Lim(1))
    IN  [arr |-> r.arr, queue |-> r.queue, counter |-> r.counter,
         objects |-> r.objects,
         limit |-> Lim(1),
         calls |-> << [metrics |-> r.arr, metricsCoalesced |-> coalesce(r.arr)] >>]

\* A process() that calls back only when something was drained.
processSkipsEmpty(q) ==
    LET r == reduceAndClear(q, Lim(Len(q)))
    IN  [arr |-> r.arr, queue |-> r.queue, counter |-> r.counter,
         objects |-> r.objects,
         limit |-> Lim(Len(q)),
         calls |-> IF r.arr = << >> THEN << >>
                   ELSE << [metrics |-> r.arr,
                            metricsCoalesced |-> coalesce(r.arr)] >>]

\* process(): the list drained with limit count(), the queue the drain
\* leaves, and the calls of the callback with their two arguments.
process(q) ==
    LET r == reduceAndClear(q, Lim(Len(q)))
    IN  [arr |-> r.arr, queue |-> r.queue, counter |-> r.counter,
         objects |-> r.objects,
         limit |-> Lim(Len(q)),
         calls |-> << [metrics |-> r.arr, metricsCoalesced |-> coalesce(r.arr)] >>]

\* if (this.timer) return;  at the head of start
startGuardNever(t) == FALSE
startGuard(t) == t # 0

\* setInterval: a handle no armed timer has (handles are positive).
setInterval(handles, t) ==
    CHOOSE h \in 1..(Cardinality(handles \cup {t}) + 1) :
        /\ h \notin handles \cup {t}
        /\ \A g \in 1..(h - 1) : g \in handles \cup {t}

\* clearInterval(this.timer)
clearIntervalNot(handles, t) == handles
clearInterval(handles, t) == handles \ {t}

\* ------------------------------------------------------------------- state
VARIABLES
    queue,          \* AggregateMetricQueue.queue
    added,          \* number of Metric objects handed to addMetrics so far
    op,             \* the operation that produced this state ("start returns":
                    \* a start that took the early return)
    lastLimit,      \* the limit of the last reduceAndClear
    before,         \* the queue as the last drain found it
    metrics,        \* the list the last reduceAndClear returned
    grouped,        \* the local counter of the last reduceAndClear at its return
    coalesced,      \* the list the last coalesce returned
    cmapKeys,       \* the keys of cmap under which its entries were stored
    returned,       \* returned[i]: how often metric i occurred in a returned list
    left,           \* the queue as the last drain left it
    called,         \* the calls of the callback the last operation made
    shares,         \* shares[k]: the input object and the input Values array entry k of coalesced is
    producer,       \* the Metric objects the last drain grouped, as it left them
    earlier,        \* the list the drain before the last returned, as it is
                    \* now, if the caller kept it
    holds,          \* whether the caller keeps the list a drain returned
    error,          \* the error the last operation raised
    timer,          \* AggregateMetricTimedHandler.timer (0 is null)
    armed,          \* the interval handles that are armed
    interval        \* AggregateMetricTimedHandler.interval

vars == << queue, added, op, lastLimit, before, metrics, grouped, coalesced, cmapKeys,
           returned, left, called, error, timer, armed, interval,
           shares, producer, earlier, holds >>

handlerVars == << timer, armed, interval >>

DefaultInterval == 1000

Init ==
    /\ queue = << >>
    /\ added = 0
    /\ op = "new"
    /\ lastLimit = Omitted
    /\ before = << >>
    /\ metrics = << >>
    /\ grouped = 0
    /\ coalesced = << >>
    /\ cmapKeys = << >>
    /\ returned = [i \in 1..MaxAdds |-> 0]
    /\ left = << >>
    /\ called = << >>
    /\ error = "none"
    /\ holds = FALSE
    /\ earlier = << >>
    /\ producer = << >>
    /\ shares = << >>
    /\ timer = 0
    /\ armed = {}
    /\ interval = DefaultInterval

\* ----------------------------------------------------------------- actions
\* metrics.forEach((m) => this.queue.push(m))
RECURSIVE addMetrics(_, _, _)
addMetrics(q, n, ms) ==
    IF ms = << >> THEN q
    ELSE addMetrics(Append(q, WithId(Head(ms), n + 1)), n + 1, Tail(ms))

\* How often metric i occurs in the Values of the aggregates of arr.
RECURSIVE Occurrences(_, _)
Occurrences(arr, i) ==
    IF arr = << >> THEN 0
    ELSE Cardinality({k \in 1..Len(Head(arr).src) : Head(arr).src[k] = i})
         + Occurrences(Tail(arr), i)

Record(arr) == [i \in 1..MaxAdds |-> returned[i] + Occurrences(arr, i)]

AddMetrics(ms) ==
    /\ added + Len(ms) <= MaxAdds
    /\ queue' = addMetrics(queue, added, ms)
    /\ added' = added + Len(ms)
    /\ op' = "addMetrics"
    /\ called' = << >>
    /\ error' = "none"
    /\ holds' = holds
    /\ earlier' = earlier
    /\ producer' = producer
    /\ shares' = shares
    /\ UNCHANGED << lastLimit, before, metrics, grouped, coalesced, cmapKeys, returned,
                    left, handlerVars >>

ReduceAndClear(limit) ==
    LET d == drainAfter(metrics, queue, limit)
        r == d.new
    IN  /\ queue' = r.queue
        /\ earlier' = IF holds THEN d.old ELSE << >>
        /\ before' = queue
        /\ lastLimit' = limit
        /\ metrics' = r.arr
        /\ grouped' = r.counter
        /\ coalesced' = << >>
        /\ cmapKeys' = << >>
        /\ returned' = Record(r.arr)
        /\ left' = r.queue
        /\ called' = << >>
        /\ error' = "none"
        /\ holds' = holds
        /\ producer' = r.objects
        /\ shares' = << >>
        /\ op' = "reduceAndClear"
        /\ UNCHANGED << added, handlerVars >>

\* coalesceAndClear(limit)
CoalesceAndClear(limit) ==
    LET d == drainAfter(metrics, queue, limit)
        r == d.new
    IN  /\ queue' = r.queue
        /\ earlier' = IF holds THEN d.old ELSE << >>
        /\ before' = queue
        /\ lastLimit' = limit
        /\ metrics' = r.arr
        /\ grouped' = r.counter
        /\ coalesced' = coalesce(r.arr)
        /\ cmapKeys' = KeysOf(coalesceLoop(<< >>, r.arr))
        /\ returned' = Record(r.arr)
        /\ left' = r.queue
        /\ called' = << >>
        /\ error' = "none"
        /\ holds' = holds
        /\ producer' = r.objects
        /\ shares' = alias(r.arr)
        /\ op' = "coalesceAndClear"
        /\ UNCHANGED << added, handlerVars >>

\* start(interval?)
Start(i) ==
    /\ IF startGuard(timer)
       THEN UNCHANGED handlerVars
       ELSE /\ interval' = IF i.given /\ i.n > 0 THEN i.n ELSE interval
            /\ timer' = setInterval(armed, timer)
            /\ armed' = armed \cup {setInterval(armed, timer)}
    /\ op' = IF startGuard(timer) THEN "start returns" ELSE "start"
    /\ called' = << >>
    /\ error' = "none"
    /\ holds' = holds
    /\ earlier' = earlier
    /\ producer' = producer
    /\ shares' = shares
    /\ UNCHANGED << queue, added, lastLimit, before, metrics, grouped, coalesced, cmapKeys,
                    returned, left >>

\* cancel()
Cancel ==
    /\ armed' = IF timer # 0 THEN clearInterval(armed, timer) ELSE armed
    /\ op' = "cancel"
    /\ called' = << >>
    /\ error' = "none"
    /\ holds' = holds
    /\ earlier' = earlier
    /\ producer' = producer
    /\ shares' = shares
    /\ UNCHANGED << queue, added, lastLimit, before, metrics, grouped, coalesced, cmapKeys,
                    returned, left, timer, interval >>

\* A tick of the armed timer: process(), whose callback may add metrics.
Tick(cb) ==
    /\ armed # {}
    /\ added + Len(cb) <= MaxAdds
    /\ LET r == process(queue)
       IN  /\ before' = queue
           /\ lastLimit' = r.limit
           /\ metrics' = r.arr
           /\ grouped' = r.counter
           /\ coalesced' = coalesce(r.arr)
           /\ cmapKeys' = KeysOf(coalesceLoop(<< >>, r.arr))
           /\ returned' = Record(r.arr)
           /\ left' = r.queue
           /\ called' = r.calls
           /\ shares' = alias(r.arr)
           /\ producer' = r.objects
           /\ earlier' = IF holds THEN drainAfter(metrics, queue, r.limit).old
                          ELSE << >>
           /\ queue' = addMetrics(r.queue, added, IF r.calls = << >> THEN << >> ELSE cb)
           /\ added' = added + (IF r.calls = << >> THEN 0 ELSE Len(cb))
    /\ error' = "none"
    /\ holds' = holds
    /\ op' = "tick"
    /\ UNCHANGED handlerVars

Intervals == {Omitted, Lim(0), Lim(25)}

Next ==
    \/ \E ms \in Batches : AddMetrics(ms)
    \/ \E limit \in Limits : ReduceAndClear(limit)
    \/ \E limit \in Limits : CoalesceAndClear(limit)
    \/ \E i \in Intervals : Start(i)
    \/ Cancel
    \/ \E cb \in CallbackBatches : Tick(cb)

Spec == Init /\ [][Next]_vars

\* ------------------------------- a handler that is started and never cancelled
\* Producers add, the handler is started, its timer ticks: no cancel(), and
\* nobody but the handler drains the queue.
NextLive ==
    \/ \E ms \in Batches : AddMetrics(ms)
    \/ \E i \in Intervals : Start(i)
    \/ \E cb \in CallbackBatches : Tick(cb)

\* The steps of NextLive that are a tick on a non-empty queue, told by what
\* they leave: only Tick sets op to "tick" and before to the queue it found.
TickFires ==
    /\ armed # {}
    /\ queue # << >>
    /\ op' = "tick"
    /\ before' = queue

\* setInterval fires again and again while the timer is armed: a tick on a
\* non-empty queue is not put off for ever.
SpecLive == Init /\ [][NextLive]_vars /\ WF_<< op, before >>(TickFires)

\* --------------------------------- a caller that keeps what a drain returned
\* The caller holds on to the list of the drain before while it adds, drains
\* and lets the handler tick.
InitAgain ==
    /\ queue = << >>
    /\ added = 0
    /\ op = "new"
    /\ lastLimit = Omitted
    /\ before = << >>
    /\ metrics = << >>
    /\ grouped = 0
    /\ coalesced = << >>
    /\ cmapKeys = << >>
    /\ returned = [i \in 1..MaxAdds |-> 0]
    /\ left = << >>
    /\ called = << >>
    /\ error = "none"
    /\ holds = TRUE
    /\ earlier = << >>
    /\ producer = << >>
    /\ shares = << >>
    /\ timer = 0
    /\ armed = {}
    /\ interval = DefaultInterval

\* Metrics of one identity, and one of another.
AgainBatches ==
    {<< [MetricName |-> "m1", Value |-> v, Dimensions |-> Undefined] >> :
        v \in MetricValues}
    \cup {<< [MetricName |-> "m1", Value |-> 1,
              Dimensions |-> Some(<< Dim("abc", "p") >>)] >>}

NextAgain ==
    \/ \E ms \in AgainBatches : AddMetrics(ms)
    \/ \E limit \in Limits : ReduceAndClear(limit)
    \/ Start(Omitted)
    \/ \E cb \in CallbackBatches : Tick(cb)

SpecAgain == InitAgain /\ [][NextAgain]_vars

\* ------------------------------------------- reduceAndClear on given queues
\* The queues reduceAndClear is applied to: every sequence of at most
\* MaxQueue metrics, numbered in queue order.
QueueInputs == UNION {[1..n -> MetricInputs] : n \in 0..MaxQueue}

InitReduce ==
    /\ \E q \in QueueInputs : queue = [i \in 1..Len(q) |-> WithId(q[i], i)]
    /\ added = Len(queue)
    /\ op = "new"
    /\ lastLimit = Omitted
    /\ before = << >>
    /\ metrics = << >>
    /\ grouped = 0
    /\ coalesced = << >>
    /\ cmapKeys = << >>
    /\ returned = [i \in 1..MaxAdds |-> 0]
    /\ left = << >>
    /\ called = << >>
    /\ error = "none"
    /\ holds = FALSE
    /\ earlier = << >>
    /\ producer = << >>
    /\ shares = << >>
    /\ timer = 0
    /\ armed = {}
    /\ interval = DefaultInterval

NextReduce == \E limit \in Limits : ReduceAndClear(limit)

SpecReduce == InitReduce /\ [][NextReduce]_vars

\* ------------------------------------ metrics with unit and timestamp
\* Metrics of one identity that differ in Unit and Timestamp.
UnitInputs ==
    {[MetricName |-> "m1", Value |-> 1, Dimensions |-> Undefined]}
    \cup [MetricName : {"m1"}, Value : {1}, Dimensions : {Undefined},
          Unit : {"Count", "Seconds"}]
    \cup [MetricName : {"m1"}, Value : {2}, Dimensions : {Undefined},
          Unit : {"Count"}, Timestamp : {1, 2}]
    \cup [MetricName : {"m1"}, Value : {2},
          Dimensions : {Some(<< Dim("abc", "p") >>)}, Timestamp : {1}]

UnitQueues == UNION {[1..n -> UnitInputs] : n \in 0..MaxQueue}

InitUnits ==
    /\ \E q \in UnitQueues : queue = [i \in 1..Len(q) |-> WithId(q[i], i)]
    /\ added = Len(queue)
    /\ op = "new"
    /\ lastLimit = Omitted
    /\ before = << >>
    /\ metrics = << >>
    /\ grouped = 0
    /\ coalesced = << >>
    /\ cmapKeys = << >>
    /\ returned = [i \in 1..MaxAdds |-> 0]
    /\ left = << >>
    /\ called = << >>
    /\ error = "none"
    /\ holds = FALSE
    /\ earlier = << >>
    /\ producer = << >>
    /\ shares = << >>
    /\ timer = 0
    /\ armed = {}
    /\ interval = DefaultInterval

SpecUnits == InitUnits /\ [][NextReduce]_vars

\* --------------------------------- coalesceAndClear without dimensions
\* Metrics without the Dimensions property, with the empty list, and with
\* one dimension.
NoDimInputs ==
    [MetricName : {"m1"}, Value : MetricValues,
     Dimensions : {Undefined, Some(<< >>)}]
    \cup {[MetricName |-> "m1", Value |-> 1, Dimensions |-> Some(<< Dim("abc", "p") >>)],
          [MetricName |-> "m2", Value |-> 1, Dimensions |-> Some(<< >>)]}

NoDimQueues == UNION {[1..n -> NoDimInputs] : n \in 0..MaxQueue}

InitNoDims ==
    /\ \E q \in NoDimQueues : queue = [i \in 1..Len(q) |-> WithId(q[i], i)]
    /\ added = Len(queue)
    /\ op = "new"
    /\ lastLimit = Omitted
    /\ before = << >>
    /\ metrics = << >>
    /\ grouped = 0
    /\ coalesced = << >>
    /\ cmapKeys = << >>
    /\ returned = [i \in 1..MaxAdds |-> 0]
    /\ left = << >>
    /\ called = << >>
    /\ error = "none"
    /\ holds = FALSE
    /\ earlier = << >>
    /\ producer = << >>
    /\ shares = << >>
    /\ timer = 0
    /\ armed = {}
    /\ interval = DefaultInterval

NextNoDims == \E limit \in Limits : CoalesceAndClear(limit)

SpecNoDims == InitNoDims /\ [][NextNoDims]_vars

\* ------------------------------------------- metrics without a usable name
\* What a producer may hand to addMetrics: a name, the empty name, no name.
NameInputs ==
    { [MetricName |-> "m1", Value |-> 1, Dimensions |-> Undefined],
      [MetricName |-> "", Value |-> 1, Dimensions |-> Undefined],
      [MetricName |-> "", Value |-> 2, Dimensions |-> Some(<< Dim("abc", "p") >>)],
      [Value |-> 1, Dimensions |-> Undefined] }

NameBatches ==
    {<< m >> : m \in NameInputs}
    \cup {<< [MetricName |-> "m1", Value |-> 1, Dimensions |-> Undefined],
             [MetricName |-> "", Value |-> 1, Dimensions |-> Undefined] >>}

NextNames ==
    \/ \E ms \in NameBatches : AddMetrics(ms)
    \/ \E limit \in Limits : ReduceAndClear(limit)

SpecNames == Init /\ [][NextNames]_vars

\* ------------------------------------------------- coalesce on given lists
\* The aggregates a caller of the static coalesce holds: built by the
\* constructor from a metric of value 1, or by the constructor and one push
\* from a metric of value 2.
AggregateInputs ==
    {NewAggregatedMetric(WithId(m, 0)) : m \in {x \in MetricInputs : x.Value = 1}}
    \cup {push(NewAggregatedMetric(WithId(m, 0)), WithId(m, 0)) :
             m \in {x \in MetricInputs : x.Value = 2}}

ListInputs == UNION {[1..n -> AggregateInputs] : n \in 0..MaxAggs}

InitCoalesce ==
    /\ metrics \in ListInputs
    /\ queue = << >>
    /\ added = 0
    /\ op = "new"
    /\ lastLimit = Omitted
    /\ before = << >>
    /\ grouped = 0
    /\ coalesced = << >>
    /\ cmapKeys = << >>
    /\ returned = [i \in 1..MaxAdds |-> 0]
    /\ left = << >>
    /\ called = << >>
    /\ error = "none"
    /\ holds = FALSE
    /\ earlier = << >>
    /\ producer = << >>
    /\ shares = << >>
    /\ timer = 0
    /\ armed = {}
    /\ interval = DefaultInterval

\* AggregateMetricQueue.coalesce(metrics), called on a list the caller holds.
Coalesce ==
    /\ coalesced' = coalesce(metrics)
    /\ cmapKeys' = KeysOf(coalesceLoop(<< >>, metrics))
    /\ op' = "coalesce"
    /\ called' = << >>
    /\ error' = "none"
    /\ holds' = holds
    /\ earlier' = earlier
    /\ producer' = producer
    /\ shares' = alias(metrics)
    /\ UNCHANGED << queue, added, lastLimit, before, metrics, grouped, returned,
                    left, handlerVars >>

NextCoalesce == Coalesce

SpecCoalesce == InitCoalesce /\ [][NextCoalesce]_vars

\* ------------------------------------- push on a coalesced aggregate
\* Most pushes on one aggregate.
MaxPush == 1

\* The aggregates a caller coalesces and then pushes on.
ShareInputs ==
    {NewAggregatedMetric(WithId(m, 0)) :
        m \in { [MetricName |-> "m1", Value |-> 1, Dimensions |-> Undefined],
                [MetricName |-> "m1", Value |-> 1,
                 Dimensions |-> Some(<< Dim("abc", "p") >>)],
                [MetricName |-> "m2", Value |-> 1,
                 Dimensions |-> Some(<< Dim("abc", "p") >>)] }}

ShareLists == UNION {[1..n -> ShareInputs] : n \in 0..MaxAggs}

InitShare ==
    /\ metrics \in ShareLists
    /\ queue = << >>
    /\ added = 0
    /\ op = "new"
    /\ lastLimit = Omitted
    /\ before = << >>
    /\ grouped = 0
    /\ coalesced = << >>
    /\ cmapKeys = << >>
    /\ returned = [i \in 1..MaxAdds |-> 0]
    /\ left = << >>
    /\ called = << >>
    /\ error = "none"
    /\ holds = FALSE
    /\ earlier = << >>
    /\ producer = << >>
    /\ shares = << >>
    /\ timer = 0
    /\ armed = {}
    /\ interval = DefaultInterval

\* The entry of the coalesced list that shares what ref says with the k-th
\* input aggregate, after that aggregate became agg by a push of value.
Pushed(entry, ref, k, agg, value) ==
    IF ref.obj = k THEN agg
    ELSE IF ref.values = k THEN [entry EXCEPT !.Values = Append(@, value)]
    ELSE entry

\* metrics[k].push(metric), by the caller that holds the list and the output
\* of coalesce.
Push(k, value) ==
    /\ op \in {"coalesce", "push"}
    /\ k \in 1..Len(metrics)
    /\ Len(metrics[k].Values) <= MaxPush
    /\ LET metric == WithId([MetricName |-> metrics[k].MetricName, Value |-> value,
                             Dimensions |-> metrics[k].Dimensions], 0)
           agg == push(metrics[k], metric)
       IN  /\ metrics' = [metrics EXCEPT ![k] = agg]
           /\ coalesced' = [j \in 1..Len(coalesced) |->
                               Pushed(coalesced[j], shares[j], k, agg, value)]
    /\ op' = "push"
    /\ called' = << >>
    /\ error' = "none"
    /\ holds' = holds
    /\ earlier' = earlier
    /\ producer' = producer
    /\ UNCHANGED << queue, added, lastLimit, before, grouped, cmapKeys, returned,
                    left, shares, handlerVars >>

NextShare ==
    \/ Coalesce
    \/ \E k \in 1..MaxAggs, value \in MetricValues : Push(k, value)

SpecShare == InitShare /\ [][NextShare]_vars

\* ------------------------------------------------ claims on the queue (Spec)
Drained(o) == o \in {"reduceAndClear", "coalesceAndClear", "tick"}

\* How often metric i is in the queue.
InQueue(i) == Cardinality({k \in 1..Len(queue) : queue[k].id = i})

\* C1: every metric ever added is either still in the queue exactly once or
\* occurs exactly once in the Values of exactly one returned aggregate.
C1_NoMetricLostOrDuplicated ==
    \A i \in 1..added : InQueue(i) + returned[i] = 1

\* C2: after reduceAndClear(limit) with 1 <= limit < n the queue holds exactly
\* the last n - limit metrics, in their original order.
C2_LimitLeavesTheRest ==
    (/\ op \in {"reduceAndClear", "coalesceAndClear"}
     /\ lastLimit.given
     /\ 1 <= lastLimit.n
     /\ lastLimit.n < Len(before))
    => queue = SubSeq(before, lastLimit.n + 1, Len(before))

\* C6: a drain without limit, or with a limit of at least the number of
\* queued metrics, leaves the queue empty; a drain of an empty queue returns
\* the empty list and leaves the queue empty.
C6_FullDrainEmptiesQueue ==
    op \in {"reduceAndClear", "coalesceAndClear"}
    => /\ (~lastLimit.given \/ lastLimit.n >= Len(before)) => Len(queue) = 0
       /\ before = << >> => (metrics = << >> /\ Len(queue) = 0)

C6_Witness ==
    /\ op = "reduceAndClear"
    /\ ~lastLimit.given
    /\ Len(before) >= 2
    /\ Len(queue) = 0
    /\ metrics # << >>

\* ------------------------------------- claims on grouping (SpecReduce)
Range(seq) == {seq[i] : i \in 1..Len(seq)}

\* The metrics the last drain grouped: the first  grouped  of the queue.
DrainedPrefix == SubSeq(before, 1, grouped)

\* The dimension set of a Dimensions field: its (Name, Value) pairs; absent
\* and empty are the same.
DimSetOf(d) ==
    IF d.defined THEN {<< x.Name, x.Value >> : x \in Range(d.items)} ELSE {}

\* Identity: the name plus the dimension set.
SameIdentity(x, y) ==
    /\ x.MetricName = y.MetricName
    /\ DimSetOf(x.Dimensions) = DimSetOf(y.Dimensions)

\* No dimension name occurs twice in the Dimensions field d.
DistinctNames(d) ==
    \A i, j \in 1..Len(d.items) : i # j => d.items[i].Name # d.items[j].Name

\* Every Dimension object of d lists its properties as the type does.
NameThenValue(d) ==
    \A i \in 1..Len(d.items) : d.items[i].keys = << "Name", "Value" >>

\* The drained metrics have distinct dimension names, written alike.
PlainDimensions ==
    \A x \in Range(DrainedPrefix) :
        DistinctNames(x.Dimensions) /\ NameThenValue(x.Dimensions)

RECURSIVE SumOf(_)
SumOf(values) == IF values = << >> THEN 0 ELSE Head(values) + SumOf(Tail(values))

\* The drained metrics that share the identity of x, in queue order.
Sharing(x) ==
    LET Test(m) == SameIdentity(m, x) IN SelectSeq(DrainedPrefix, Test)

ValuesIn(seq) == [i \in 1..Len(seq) |-> seq[i].Value]
IdsIn(seq) == [i \in 1..Len(seq) |-> seq[i].id]

AggregateIsSumOfItsIdentity(a) ==
    /\ a.Values = ValuesIn(Sharing(a))
    /\ a.src = IdsIn(Sharing(a))
    /\ a.Value = SumOf(ValuesIn(Sharing(a)))

\* C3 as stated: every returned aggregate has the values, in order, of the
\* drained metrics that share its identity (name plus dimension set), and
\* their arithmetic sum as Value, whatever the order of the dimensions.
C3_Original ==
    Drained(op) => \A k \in 1..Len(metrics) : AggregateIsSumOfItsIdentity(metrics[k])

\* C3 amended: the same, when no drained metric repeats a dimension name
\* and every Dimension object lists Name before Value.
C3_ValuesAndSumPerIdentity ==
    (Drained(op) /\ PlainDimensions) =>
        \A k \in 1..Len(metrics) : AggregateIsSumOfItsIdentity(metrics[k])

\* Two metrics whose dimensions came in different orders were summed.
C3_Witness ==
    /\ op = "reduceAndClear"
    /\ \E k \in 1..Len(metrics) :
          /\ Len(metrics[k].Values) = 2
          /\ metrics[k].Value = 3
          /\ PlainDimensions
          /\ \E x, y \in Range(DrainedPrefix) :
                /\ x.id = metrics[k].src[1]
                /\ y.id = metrics[k].src[2]
                /\ x.Dimensions # y.Dimensions
                /\ Len(x.Dimensions.items) = 2

\* The permutations of a sequence.
Perms(seq) ==
    {t \in [1..Len(seq) -> Range(seq)] :
        \E f \in [1..Len(seq) -> 1..Len(seq)] :
            /\ \A i, j \in 1..Len(seq) : i # j => f[i] # f[j]
            /\ \A i \in 1..Len(seq) : t[i] = seq[f[i]]}

\* The queue q with the dimensions of its k-th metric listed as t.
Relisted(q, k, t) == [q EXCEPT ![k].Dimensions.items = t]

MergedTogether(x, y) ==
    \E k \in 1..Len(metrics) :
        /\ x.id \in Range(metrics[k].src)
        /\ y.id \in Range(metrics[k].src)

\* The result of the last drain does not change when one queued metric
\* lists its dimensions in another order.
PermutationInvariant(k) ==
    \A t \in Perms(before[k].Dimensions.items) :
        reduceAndClear(Relisted(before, k, t), lastLimit).arr = metrics

\* C4 as stated: metrics of one name whose dimension lists hold the same
\* (Name, Value) pairs in different orders are merged into one aggregate, and
\* the result of the drain is the same under every permutation of a metric's
\* dimension list.
C4_Original ==
    Drained(op) =>
        /\ \A x, y \in Range(DrainedPrefix) : SameIdentity(x, y) => MergedTogether(x, y)
        /\ \A k \in 1..Len(DrainedPrefix) : PermutationInvariant(k)

\* C4 amended: the same, when no drained metric repeats a dimension name
\* and every Dimension object lists Name before Value.
C4_DimensionOrderIrrelevant ==
    (Drained(op) /\ PlainDimensions) =>
        /\ \A x, y \in Range(DrainedPrefix) : SameIdentity(x, y) => MergedTogether(x, y)
        /\ \A k \in 1..Len(DrainedPrefix) : PermutationInvariant(k)

\* The two orders of one dimension set were drained into a single aggregate.
C4_Witness ==
    /\ op = "reduceAndClear"
    /\ Len(metrics) = 1
    /\ PlainDimensions
    /\ \E x, y \in Range(DrainedPrefix) :
          /\ x.Dimensions.items = << Dim("abc", "p"), Dim("xyz", "q") >>
          /\ y.Dimensions.items = << Dim("xyz", "q"), Dim("abc", "p") >>

\* The aggregates returned for the identity of x.
AggregatesOf(x) == {k \in 1..Len(metrics) : SameIdentity(x, metrics[k])}

\* The place in the drained prefix where the identity of x first occurs.
FirstSeen(x) ==
    CHOOSE i \in 1..Len(DrainedPrefix) :
        /\ SameIdentity(DrainedPrefix[i], x)
        /\ \A j \in 1..(i - 1) : ~SameIdentity(DrainedPrefix[j], x)

\* Every aggregate holds drained metrics of its own identity only.
NeverMergedAcrossIdentities ==
    \A k \in 1..Len(metrics) :
        /\ metrics[k].src # << >>
        /\ \A i \in Range(metrics[k].src) :
              \E x \in Range(DrainedPrefix) : x.id = i /\ SameIdentity(x, metrics[k])

\* C5 as stated: one aggregate per identity among the drained metrics,
\* metrics of different identities never merged, aggregates in the order in
\* which their identities first occur in the queue.
C5_Original ==
    Drained(op) =>
        /\ \A x \in Range(DrainedPrefix) : Cardinality(AggregatesOf(x)) = 1
        /\ NeverMergedAcrossIdentities
        /\ \A k, l \in 1..Len(metrics) :
              k < l => FirstSeen(metrics[k]) < FirstSeen(metrics[l])

\* C5 amended: the same, when no drained metric repeats a dimension name
\* and every Dimension object lists Name before Value.
C5_OneAggregatePerIdentityInOrder ==
    (Drained(op) /\ PlainDimensions) =>
        /\ \A x \in Range(DrainedPrefix) : Cardinality(AggregatesOf(x)) = 1
        /\ NeverMergedAcrossIdentities
        /\ \A k, l \in 1..Len(metrics) :
              k < l => FirstSeen(metrics[k]) < FirstSeen(metrics[l])

\* Three metrics of two identities, the second identity between the two
\* metrics of the first: dimensions absent against dimensions present.
C5_Witness ==
    /\ op = "reduceAndClear"
    /\ Len(metrics) = 2
    /\ Len(DrainedPrefix) = 3
    /\ PlainDimensions
    /\ Len(metrics[1].Values) = 2
    /\ metrics[1].MetricName = metrics[2].MetricName
    /\ ~metrics[1].Dimensions.defined
    /\ Len(metrics[2].Dimensions.items) > 0
    /\ DrainedPrefix[2].id = metrics[2].src[1]

\* ------------------------------------- claims on coalesce (SpecCoalesce)
Coalesced(o) == o \in {"coalesce", "coalesceAndClear", "tick"}

\* No dimensions: the field is undefined or the empty list.
NoDimensions(e) == ~e.Dimensions.defined \/ e.Dimensions.items = << >>

NamesIn(list) == {list[k].MetricName : k \in 1..Len(list)}

\* The Values of the aggregates of list named name, concatenated in order.
RECURSIVE ConcatValues(_, _)
ConcatValues(list, name) ==
    IF list = << >> THEN << >>
    ELSE (IF Head(list).MetricName = name THEN Head(list).Values ELSE << >>)
         \o ConcatValues(Tail(list), name)

\* The places of the output that hold the rollup entry of name.
RollupsOf(name) ==
    {k \in 1..Len(coalesced) :
        cmapKeys[k] = [MetricName |-> name, Dimensions |-> << >>]}

\* C7: for every metric name of the input the output holds exactly one
\* dimension-less rollup entry, whose Values are the Values of all input
\* aggregates of that name, concatenated in input order.
C7_OneDimensionlessRollupPerName ==
    Coalesced(op) =>
        \A name \in NamesIn(metrics) :
            /\ Cardinality({k \in 1..Len(coalesced) :
                                /\ coalesced[k].MetricName = name
                                /\ NoDimensions(coalesced[k])}) = 1
            /\ \A k \in 1..Len(coalesced) :
                  (coalesced[k].MetricName = name /\ NoDimensions(coalesced[k]))
                  => coalesced[k].Values = ConcatValues(metrics, name)

\* The input aggregates that carry at least one dimension.
Dimensioned(list) == {k \in 1..Len(list) : ~NoDimensions(list[k])}

\* C8 as stated: the output has one entry per metric name of the input plus
\* one per input aggregate with non-empty dimensions.
C8_Original ==
    Coalesced(op) =>
        Len(coalesced) = Cardinality(NamesIn(metrics))
                         + Cardinality(Dimensioned(metrics))

\* C8 amended: one entry per metric name plus one per distinct pair of name
\* and JSON text of the dimension list among the input aggregates with
\* non-empty dimensions.
C8_EntryCount ==
    Coalesced(op) =>
        Len(coalesced) =
            Cardinality(NamesIn(metrics))
            + Cardinality({<< metrics[k].MetricName,
                              stringify(metrics[k].Dimensions.items) >> :
                              k \in Dimensioned(metrics)})

\* A name that occurs only with dimensions, twice: a rollup and two entries.
C8_Witness ==
    /\ op = "coalesce"
    /\ Len(metrics) = 2
    /\ Cardinality(NamesIn(metrics)) = 1
    /\ Dimensioned(metrics) = {1, 2}
    /\ Len(coalesced) = 3

\* C9: every rollup entry has no dimensions, also when the first input
\* aggregate of its name carries dimensions.
C9_RollupHasNoDimensions ==
    Coalesced(op) =>
        \A name \in NamesIn(metrics) :
            \A k \in RollupsOf(name) : NoDimensions(coalesced[k])

\* C10: the entry emitted for an input aggregate with non-empty dimensions is
\* its value-set view: its name, dimensions and Values, without the summed
\* Value field and without the list of merged metrics.
C10_PerDimensionEntryIsValueSet ==
    Coalesced(op) =>
        \A i \in Dimensioned(metrics) :
            \E k \in 1..Len(coalesced) :
                /\ cmapKeys[k] = [MetricName |-> metrics[i].MetricName,
                                  Dimensions |-> stringify(metrics[i].Dimensions.items)]
                /\ coalesced[k].Values = metrics[i].Values
                /\ coalesced[k].MetricName = metrics[i].MetricName
                /\ coalesced[k].Dimensions = metrics[i].Dimensions
                /\ "Value" \notin DOMAIN coalesced[k]
                /\ "_metrics" \notin DOMAIN coalesced[k]

\* ------------------------------------------ claims on the handler (Spec)
\* The metrics of the arguments of one callback call: the ids in the Values
\* of the aggregates of its first argument.
RECURSIVE IdsOf(_)
IdsOf(arr) == IF arr = << >> THEN << >> ELSE Head(arr).src \o IdsOf(Tail(arr))

\* C11: on every tick all metrics buffered at the tick are drained, count()
\* is 0 right after the drain step, and the callback receives the
\* per-identity list of exactly those metrics (each once, grouped by
\* identity, no identity twice) together with coalesce of that same list.
C11_TickDrainsEverything ==
    op = "tick" =>
        /\ Len(left) = 0
        /\ Len(called) = 1
        /\ Len(IdsOf(called[1].metrics)) = Len(before)
        /\ Range(IdsOf(called[1].metrics)) = Range(IdsIn(before))
        /\ \A k \in 1..Len(called[1].metrics) :
              \A i \in Range(called[1].metrics[k].src) :
                  \E x \in Range(before) :
                      x.id = i /\ SameIdentity(x, called[1].metrics[k])
        /\ \A k, l \in 1..Len(called[1].metrics) :
              k # l => ~SameIdentity(called[1].metrics[k], called[1].metrics[l])
        /\ called[1].metricsCoalesced = coalesce(called[1].metrics)

\* A tick that found three metrics of two identities.
C11_Witness ==
    /\ op = "tick"
    /\ Len(before) = 3
    /\ Len(called) = 1
    /\ Len(called[1].metrics) = 2
    /\ Len(called[1].metricsCoalesced) >= 2
    /\ Len(left) = 0

\* C12: every tick calls the callback exactly once, also when the queue is
\* empty (the two arguments are then empty lists); no other operation
\* calls it.
C12_OneCallbackPerTick ==
    /\ op = "tick" =>
          /\ Len(called) = 1
          /\ before = << >> =>
                called[1] = [metrics |-> << >>, metricsCoalesced |-> << >>]
    /\ op # "tick" => called = << >>

\* A tick on an empty queue called back with two empty lists.
C12_Witness ==
    /\ op = "tick"
    /\ before = << >>
    /\ called = << [metrics |-> << >>, metricsCoalesced |-> << >>] >>

Started(o) == o \in {"start", "start returns"}

\* C13: start() on a handler whose timer is armed changes nothing (no second
\* timer, the interval as recorded), and at most one timer is ever armed.
C13_StartWhileRunningIsNoOp ==
    /\ [](Cardinality(armed) <= 1)
    /\ [][(armed # {} /\ Started(op'))
            => (armed' = armed /\ timer' = timer /\ interval' = interval)]_vars

\* start(25) armed the timer and a later start() returned early.
C13_Witness ==
    /\ op = "start returns"
    /\ Cardinality(armed) = 1
    /\ interval = 25

\* C14: after cancel() no timer is armed, and while none is armed no tick
\* occurs unless start() is called; cancel() with no timer armed changes
\* nothing.
C14_CancelStopsTicks ==
    /\ [](op = "cancel" => armed = {})
    /\ [][(armed = {} /\ ~Started(op')) => (armed' = {} /\ op' # "tick")]_vars
    /\ [][(armed = {} /\ op' = "cancel")
            => UNCHANGED << timer, armed, interval, queue >>]_vars

\* cancel() after a start() and a tick that drained something.
C14_Witness ==
    /\ op = "cancel"
    /\ timer # 0
    /\ armed = {}
    /\ returned # [i \in 1..MaxAdds |-> 0]

\* C15: after start() returns a timer is armed, whatever preceded it: also
\* a start() that follows start() and cancel().
C15_StartFromIdleArmsTimer ==
    Started(op) => armed # {}

\* ------------------------------------------ claims on names (SpecNames)
\* A usable name: present and not empty.
ValidName(name) == name # NoString /\ name # ""

\* C16: addMetrics of a metric whose name is empty or missing raises
\* InvalidMetric and queues none of it: no queued metric and no returned
\* aggregate has an empty or missing name.
C16_InvalidNameRejected ==
    /\ [](\A i \in 1..Len(queue) : ValidName(queue[i].MetricName))
    /\ [](Drained(op) =>
            \A k \in 1..Len(metrics) : ValidName(metrics[k].MetricName))
    /\ [][\A ms \in NameBatches :
            (AddMetrics(ms)
             /\ \E i \in 1..Len(ms) : ~ValidName(Get(ms[i], "MetricName", NoString)))
            => error' = "InvalidMetric"]_vars

\* ---------------------------- claims on unit and timestamp (SpecUnits)
\* The drained metric an aggregate was constructed from.
Seed(a) == CHOOSE x \in Range(DrainedPrefix) : x.id = a.src[1]

\* C17: an aggregate's unit and timestamp are those of its seed, and
\* getMetric and getMetricSet both report them.
C17_UnitAndTimestampOfSeed ==
    Drained(op) =>
        \A k \in 1..Len(metrics) :
            /\ metrics[k].Unit = Seed(metrics[k]).Unit
            /\ metrics[k].Timestamp = Seed(metrics[k]).Timestamp
            /\ getMetric(metrics[k]).Unit = Seed(metrics[k]).Unit
            /\ getMetric(metrics[k]).Timestamp = Seed(metrics[k]).Timestamp
            /\ getMetricSet(metrics[k]).Unit = Seed(metrics[k]).Unit
            /\ getMetricSet(metrics[k]).Timestamp = Seed(metrics[k]).Timestamp

\* --------------------------------- claims on the sample count (SpecReduce)
\* C18: the sample count of every aggregate equals the length of its
\* Values: 1 after construction, one more with each push.
C18_CountIsLengthOfValues ==
    Drained(op) =>
        \A k \in 1..Len(metrics) : aggCount(metrics[k]) = Len(metrics[k].Values)

\* ------------------- claims on absent and empty dimensions (SpecNoDims)
\* The places of the output whose entry is named name.
EntriesOf(name) == {k \in 1..Len(coalesced) : coalesced[k].MetricName = name}

\* C19: drained metrics of one name that have no Dimensions field or an
\* empty Dimensions list are merged into one aggregate, and coalesce makes no
\* per-dimension entry for that aggregate: a name has its rollup entry and
\* one entry per aggregate with at least one dimension.
C19_AbsentAndEmptyDimensionsAlike ==
    Coalesced(op) =>
        /\ \A x, y \in Range(DrainedPrefix) :
              (x.MetricName = y.MetricName /\ NoDimensions(x) /\ NoDimensions(y))
              => MergedTogether(x, y)
        /\ \A name \in NamesIn(metrics) :
              Cardinality(EntriesOf(name)) =
                  1 + Cardinality({k \in Dimensioned(metrics) :
                                      metrics[k].MetricName = name})

\* A metric without Dimensions and one with the empty list became one
\* aggregate and one coalesced entry.
C19_Witness ==
    /\ op = "coalesceAndClear"
    /\ Len(metrics) = 1
    /\ Len(metrics[1].Values) = 2
    /\ Len(coalesced) = 1
    /\ \E x, y \in Range(DrainedPrefix) :
          /\ ~x.Dimensions.defined
          /\ y.Dimensions = Some(<< >>)

\* ------------------------------- claims on coalesce order (SpecCoalesce)
\* The unique key of an input aggregate, as text.
UniqueKeyOf(a) ==
    [MetricName |-> a.MetricName,
     Dimensions |-> stringify(IF a.Dimensions.defined THEN a.Dimensions.items
                              ELSE << >>)]

\* The first place of the input whose aggregate has name / unique key.
FirstNamed(name) ==
    CHOOSE i \in 1..Len(metrics) :
        /\ metrics[i].MetricName = name
        /\ \A j \in 1..(i - 1) : metrics[j].MetricName # name

FirstWithKey(key) ==
    CHOOSE i \in 1..Len(metrics) :
        /\ UniqueKeyOf(metrics[i]) = key
        /\ \A j \in 1..(i - 1) : UniqueKeyOf(metrics[j]) # key

\* The first place of the output whose entry is named name.
FirstEntry(name) ==
    CHOOSE k \in EntriesOf(name) : \A l \in EntriesOf(name) : k <= l

\* The place of the output stored under key.
PlaceOf(key) == CHOOSE k \in 1..Len(cmapKeys) : cmapKeys[k] = key

\* C20: the output is in the order in which the keys were first created:
\* every key once; names in the order in which the input first has them;
\* the rollup entry of a name before every other entry of that name; the
\* per-dimension entries in the order in which the input first has their
\* keys.
C20_EntriesInKeyCreationOrder ==
    Coalesced(op) =>
        /\ \A k, l \in 1..Len(cmapKeys) : k # l => cmapKeys[k] # cmapKeys[l]
        /\ NamesIn(coalesced) = NamesIn(metrics)
        /\ \A n1, n2 \in NamesIn(metrics) :
              FirstNamed(n1) < FirstNamed(n2) => FirstEntry(n1) < FirstEntry(n2)
        /\ \A name \in NamesIn(metrics) :
              \A k \in EntriesOf(name) :
                  k \in RollupsOf(name) \/ \E r \in RollupsOf(name) : r < k
        /\ \A i, j \in Dimensioned(metrics) :
              FirstWithKey(UniqueKeyOf(metrics[i])) < FirstWithKey(UniqueKeyOf(metrics[j]))
              => PlaceOf(UniqueKeyOf(metrics[i])) < PlaceOf(UniqueKeyOf(metrics[j]))

\* Two names, the first with two different dimension lists around the
\* second, which has none: rollup, entry, rollup, entry.
C20_Witness ==
    /\ op = "coalesce"
    /\ Len(metrics) = 3
    /\ Dimensioned(metrics) = {1, 3}
    /\ metrics[1].MetricName = metrics[3].MetricName
    /\ metrics[1].MetricName # metrics[2].MetricName
    /\ Len(coalesced) = 4
    /\ RollupsOf(metrics[1].MetricName) = {1}
    /\ RollupsOf(metrics[2].MetricName) = {3}

\* ----------------------------------- claims on sharing (SpecShare)
\* C21: coalesce leaves its input aggregates as they were, and a push on an
\* input aggregate after coalesce returned changes the Values of no returned
\* entry, rollup or per-dimension.
C21_OutputSharesNothingWithInput ==
    /\ [][op' = "coalesce" => metrics' = metrics]_vars
    /\ [][op' = "push" =>
            \A j \in 1..Len(coalesced) : coalesced'[j].Values = coalesced[j].Values]_vars

\* ------------------------------------------ claims on limit 0 (Spec)
\* C22: reduceAndClear(0) on a non-empty queue removes nothing: it returns
\* the empty list and leaves the queue as it was.
C22_LimitZeroDrainsNothing ==
    (/\ op \in {"reduceAndClear", "coalesceAndClear"}
     /\ lastLimit = Lim(0)
     /\ before # << >>)
    => (metrics = << >> /\ queue = before /\ Len(queue) = Len(before))

\* ----------------------- claims on the producer's metrics (SpecReduce)
\* C23: a drain leaves every Metric object it grouped as the producer made
\* it: all fields, and the order of its Dimensions list.
C23_MetricsAreNotModified ==
    Drained(op) =>
        /\ Len(producer) = Len(DrainedPrefix)
        /\ \A i \in 1..Len(producer) : producer[i] = DrainedPrefix[i]

\* ------------------------------------- claims on liveness (SpecLive)
\* Metric i is in the first argument of the callback call of this tick.
Delivered(i) ==
    /\ op = "tick"
    /\ called # << >>
    /\ i \in Range(IdsOf(called[1].metrics))

\* C24: while the handler's timer is armed and never cancelled, every
\* queued metric, whether a producer or the callback added it, is eventually
\* in the drained list a tick passes to the callback.
C24_EveryMetricReachesCallback ==
    \A i \in 1..MaxAdds : (InQueue(i) > 0 /\ armed # {}) ~> Delivered(i)

\* A metric the callback added during one tick was delivered by a later
\* tick, whose callback added another.
C24_Witness ==
    /\ returned[1] = 1
    /\ Delivered(2)
    /\ InQueue(3) = 1
    /\ Len(before) = 1

\* ------------------------------ claims on repeated drains (SpecAgain)
\* The ids of the metrics whose values the aggregates of arr hold.
SourcesOf(arr) == Range(IdsOf(arr))

\* C25: every drain builds its aggregates from the metrics it drained and
\* nothing else, so they are apart from those of the drain before; and the
\* list a caller kept from the drain before is as it was returned, after
\* every later addMetrics, reduceAndClear and tick.
C25_DrainsBuildFromScratch ==
    /\ [](Drained(op) =>
            /\ SourcesOf(metrics) \subseteq Range(IdsIn(DrainedPrefix))
            /\ SourcesOf(metrics) \cap SourcesOf(earlier) = {}
            /\ \A k \in 1..Len(metrics) :
                  metrics[k].Values = ValuesIn(Sharing(metrics[k])))
    /\ [][Drained(op') => earlier' = metrics]_vars
    /\ [][~Drained(op') => (earlier' = earlier /\ metrics' = metrics)]_vars

\* Two drains each returned an aggregate of the same identity: the one kept
\* from the first still has its one value, the second has its own.
C25_Witness ==
    /\ op = "reduceAndClear"
    /\ Len(earlier) = 1
    /\ Len(metrics) = 1
    /\ SameIdentity(earlier[1], metrics[1])
    /\ earlier[1].src = << 1 >>
    /\ metrics[1].src = << 2 >>
    /\ earlier[1].Value = 1
    /\ metrics[1].Value = 2

====
